---- MODULE Spec2Model ----
(***************************************************************************)
(* Model of the subscription extraction engine                             *)
(* (src/services/subscriptionService.ts) and of the persistence step of    *)
(* scanUserGmailForSubscriptions (src/services/gmailServices.ts).          *)
(*                                                                         *)
(* Text.  A JavaScript string is a sequence of atoms.  An atom is a        *)
(* maximal run of letters (a word, kept with its case), a maximal run of   *)
(* decimal digits (kept as value v and number of digits n, so "05" is      *)
(* v = 5, n = 2) or one other character.  The regular expressions and      *)
(* the substring tests of the source are evaluated on atoms.  Treating a   *)
(* word as one unit is exact for the texts below because no word of them   *)
(* strictly contains a brand, a provider, a keyword, a currency code or a  *)
(* month abbreviation, and no two words are adjacent.                      *)
(*                                                                         *)
(* Optional values.  undefined / null is the empty tuple <<>>, a present   *)
(* value x is the one-element tuple <<x>>; so an absent product <<>> and   *)
(* the empty product string << <<>> >> differ, as in the source.           *)
(***************************************************************************)
EXTENDS Integers, Sequences, FiniteSets, TLC

VARIABLES msgs, i, results, grouped, out, pc,
          store, nextId, scan

parserVars == <<msgs, i, results, grouped, out, pc>>
scanVars == <<store, nextId, scan>>
vars == <<msgs, i, results, grouped, out, pc, store, nextId, scan>>

----------------------------------------------------------------------------
(* Bounds *)

\* longest batch handed to parseSubscriptionsFromEmails
MaxMsgs == 2

\* number of scanUserGmailForSubscriptions calls started in one behaviour
MaxScans == 3

----------------------------------------------------------------------------
(* Optional values and small helpers *)

None == <<>>

Some(x) == <<x>>

Min(S) == CHOOSE x \in S : \A y \in S : x <= y

----------------------------------------------------------------------------
(* Atoms *)

W(s) == [k |-> "w", s |-> s, v |-> 0, n |-> 0]

D(v, n) == [k |-> "d", s |-> "", v |-> v, n |-> n]

P(s) == [k |-> "p", s |-> s, v |-> 0, n |-> 0]

sp == P(" ")

isSpace(a) == a.k = "p" /\ a.s \in {" ", "\n"}

\* a character of the regex word class \w (letters and digits here)
isWordChar(a) == a.k \in {"w", "d"}

\* String.prototype.toLowerCase on one word; every word of the model that is
\* not listed is already lower case
lowerWord(s) ==
  CASE s = "Netflix" -> "netflix"
    [] s = "Spotify" -> "spotify"
    [] s = "Hulu" -> "hulu"
    [] s = "Stripe" -> "stripe"
    [] s = "Premium" -> "premium"
    [] s = "Pro" -> "pro"
    [] s = "EUR" -> "eur"
    [] s = "USD" -> "usd"
    [] s = "Jan" -> "jan"
    [] s = "From" -> "from"
    [] s = "FROM" -> "from"
    [] s = "To" -> "to"
    [] OTHER -> s

toLowerCase(t) ==
  [j \in 1..Len(t) |-> IF t[j].k = "w" THEN W(lowerWord(t[j].s)) ELSE t[j]]

\* String.prototype.includes
includes(t, needle) ==
  \E j \in 0..(Len(t) - Len(needle)) :
    \A l \in 1..Len(needle) : t[j + l] = needle[l]

\* String.prototype.trim
RECURSIVE trimStart(_)
trimStart(t) ==
  IF t # <<>> /\ isSpace(Head(t)) THEN trimStart(Tail(t)) ELSE t

RECURSIVE trimEnd(_)
trimEnd(t) ==
  IF t # <<>> /\ isSpace(t[Len(t)])
    THEN trimEnd(SubSeq(t, 1, Len(t) - 1))
    ELSE t

trim(t) == trimEnd(trimStart(t))

\* s.split("\n")[0]
firstLine(t) ==
  LET nl == {j \in 1..Len(t) : t[j] = P("\n")}
  IN IF nl = {} THEN t ELSE SubSeq(t, 1, Min(nl) - 1)

----------------------------------------------------------------------------
(* Lists of the source *)

knownProviders ==
  <<"openai", "perplexity", "claude", "spotify", "youtube",
    "netflix", "stripe", "apple", "amazon">>

subscriptionKeywords ==
  << <<W("subscription")>>, <<W("renewal")>>, <<W("renewed")>>,
     <<W("payment")>>, <<W("invoice")>>, <<W("charged")>>,
     <<W("billed")>>, <<W("receipt")>>, <<W("plan")>>,
     <<W("auto"), P("-"), W("renew")>>, <<W("membership")>> >>

\* ../data/subs.json, the brand list
subs == <<"Netflix", "Spotify", "Hulu">>

brandKeywords == [j \in 1..Len(subs) |-> lowerWord(subs[j])]

----------------------------------------------------------------------------
(* guessProviderFromHeaders *)

\* a payload is [headers |-> optional sequence of [name, value]], a header
\* value is an optional string
guessProviderFromHeaders(payload) ==
  IF payload = None THEN None
  ELSE
    LET headers == IF payload[1].headers = None THEN <<>>
                   ELSE payload[1].headers[1]
        named == {j \in 1..Len(headers) : lowerWord(headers[j].name) = "from"}
        from == IF named = {} \/ headers[Min(named)].value = None THEN <<>>
                ELSE toLowerCase(headers[Min(named)].value[1])
        hits == {j \in 1..Len(knownProviders) :
                   includes(from, <<W(knownProviders[j])>>)}
    IN IF hits = {} THEN None ELSE Some(knownProviders[Min(hits)])

----------------------------------------------------------------------------
(* extractAmount *)

\* the first two digits of a digit run: what [0-9]{1,2} takes of it
firstTwoDigits(d) == IF d.n <= 2 THEN d ELSE D(d.v \div (10 ^ (d.n - 2)), 2)

\* m[1] of snippet.match(moneyRegex): the leftmost match starts at or before
\* the first digit run of the text, [0-9]+ takes the whole run and the
\* optional group takes [.,] and one or two digits when they follow; None
\* when the text has no digit
moneyRegex(snippet) ==
  LET digits == {j \in 1..Len(snippet) : snippet[j].k = "d"}
      j == Min(digits)
      hasFraction == /\ j + 2 <= Len(snippet)
                     /\ snippet[j + 1] \in {P("."), P(",")}
                     /\ snippet[j + 2].k = "d"
  IN IF digits = {} THEN None
     ELSE IF hasFraction
       THEN Some(<<snippet[j], snippet[j + 1], firstTwoDigits(snippet[j + 2])>>)
       ELSE Some(<<snippet[j]>>)

\* m[1].replace(",", ".")
replaceComma(t) == [j \in 1..Len(t) |-> IF t[j] = P(",") THEN P(".") ELSE t[j]]

\* parseFloat of digits, or of digits "." digits; the number in hundredths
parseFloat(raw) ==
  IF Len(raw) = 3 /\ raw[2] = P(".")
    THEN raw[1].v * 100 + (IF raw[3].n = 1 THEN raw[3].v * 10 ELSE raw[3].v)
    ELSE raw[1].v * 100

inferCurrency(snippet) ==
  IF includes(snippet, <<P("$")>>) THEN "USD"
  ELSE IF includes(snippet, <<P("€")>>) THEN "EUR"
  ELSE IF includes(snippet, <<P("₦")>>) THEN "NGN"
  ELSE "USD"

\* an extractor that infers the currency before it looks at the match
extractAmountCurrencyFirst(snippet) ==
  LET m == moneyRegex(snippet)
  IN [amount |-> IF m = None THEN None
                 ELSE Some(parseFloat(replaceComma(m[1]))),
      currency |-> Some(inferCurrency(snippet))]

extractAmount(snippet) ==
  LET m == moneyRegex(snippet)
  IN IF m = None THEN [amount |-> None, currency |-> None]
     ELSE [amount |-> Some(parseFloat(replaceComma(m[1]))),
           currency |-> Some(inferCurrency(snippet))]

----------------------------------------------------------------------------
(* Dates: a Date is a day number (days since 2000-01-01) or the Invalid Date *)

InvalidDate == [valid |-> FALSE, t |-> 0]

isLeap(y) == y % 4 = 0 /\ (y % 100 # 0 \/ y % 400 = 0)

daysInMonth(y, m) ==
  IF m = 2 THEN (IF isLeap(y) THEN 29 ELSE 28)
  ELSE IF m \in {4, 6, 9, 11} THEN 30 ELSE 31

RECURSIVE daysBeforeMonth(_, _)
daysBeforeMonth(y, m) ==
  IF m <= 1 THEN 0 ELSE daysBeforeMonth(y, m - 1) + daysInMonth(y, m - 1)

RECURSIVE daysBeforeYear(_)
daysBeforeYear(y) ==
  IF y <= 2000 THEN 0
  ELSE daysBeforeYear(y - 1) + (IF isLeap(y - 1) THEN 366 ELSE 365)

\* new Date(string) of the engine: a month outside 1..12 or a day outside
\* 1..31 gives the Invalid Date and throws nothing; a day past the end of
\* its month rolls over into the next month
newDate(y, m, d) ==
  IF m \in 1..12 /\ d \in 1..31
    THEN [valid |-> TRUE, t |-> daysBeforeYear(y) + daysBeforeMonth(y, m) + d - 1]
    ELSE InvalidDate

\* addDays of date-fns: the Invalid Date stays invalid
addDays(d, amount) ==
  IF d.valid THEN [valid |-> TRUE, t |-> d.t + amount] ELSE InvalidDate

isDateSep(a) == a \in {P("-"), P("/")}

\* the positions where /\b(20\d{2}[-\/]\d{1,2}[-\/]\d{1,2})\b/ matches
isoMatches(t) ==
  {j \in 1..(Len(t) - 4) :
     /\ t[j].k = "d" /\ t[j].n = 4 /\ t[j].v \in 2000..2099
     /\ (j = 1 \/ ~isWordChar(t[j - 1]))
     /\ isDateSep(t[j + 1])
     /\ t[j + 2].k = "d" /\ t[j + 2].n <= 2
     /\ isDateSep(t[j + 3])
     /\ t[j + 4].k = "d" /\ t[j + 4].n <= 2
     /\ (j + 4 = Len(t) \/ ~isWordChar(t[j + 5]))}

\* the month a word names: it starts with an English month abbreviation
monthOfWord(s) ==
  CASE s \in {"jan", "january"} -> 1
    [] s \in {"feb", "february"} -> 2
    [] s \in {"mar", "march"} -> 3
    [] s \in {"apr", "april"} -> 4
    [] s \in {"may"} -> 5
    [] s \in {"jun", "june"} -> 6
    [] s \in {"jul", "july"} -> 7
    [] s \in {"aug", "august"} -> 8
    [] s \in {"sep", "sept", "september"} -> 9
    [] s \in {"oct", "october"} -> 10
    [] s \in {"nov", "november"} -> 11
    [] s \in {"dec", "december"} -> 12
    [] OTHER -> 0

\* the first position at or after j that holds no white space
RECURSIVE skipSpaces(_, _)
skipSpaces(t, j) ==
  IF j <= Len(t) /\ isSpace(t[j]) THEN skipSpaces(t, j + 1) ELSE j

\* the position of the day and of the year of a long-form date whose month
\* word stands at position j
longDay(t, j) == skipSpaces(t, j + 1)

longYear(t, j) == skipSpaces(t, longDay(t, j) + 2)

\* the positions where the long-form pattern matches:
\* \b Mon[a-z]* \s+ \d{1,2} , \s* \d{4} \b
longDateMatches(t) ==
  {j \in 1..Len(t) :
     /\ t[j].k = "w" /\ monthOfWord(lowerWord(t[j].s)) # 0
     /\ (j = 1 \/ ~isWordChar(t[j - 1]))
     /\ longDay(t, j) > j + 1
     /\ longDay(t, j) + 1 <= Len(t)
     /\ t[longDay(t, j)].k = "d" /\ t[longDay(t, j)].n <= 2
     /\ t[longDay(t, j) + 1] = P(",")
     /\ longYear(t, j) <= Len(t)
     /\ t[longYear(t, j)].k = "d" /\ t[longYear(t, j)].n = 4
     /\ (longYear(t, j) = Len(t) \/ ~isWordChar(t[longYear(t, j) + 1]))}

\* an extractor that returns the date it found as the next billing date too
extractDatesSameDay(snippet) ==
  LET iso == isoMatches(snippet)
      long == longDateMatches(snippet)
  IN IF iso # {}
       THEN LET j == Min(iso)
                d == newDate(snippet[j].v, snippet[j + 2].v, snippet[j + 4].v)
            IN [start |-> Some(d), next |-> Some(d)]
     ELSE IF long # {}
       THEN LET j == Min(long)
                d == newDate(snippet[longYear(snippet, j)].v,
                             monthOfWord(lowerWord(snippet[j].s)),
                             snippet[longDay(snippet, j)].v)
            IN [start |-> Some(d), next |-> Some(d)]
     ELSE [start |-> None, next |-> None]

extractDates(snippet) ==
  LET iso == isoMatches(snippet)
      long == longDateMatches(snippet)
  IN IF iso # {}
       THEN LET j == Min(iso)
                d == newDate(snippet[j].v, snippet[j + 2].v, snippet[j + 4].v)
            IN [start |-> Some(d), next |-> Some(addDays(d, 30))]
     ELSE IF long # {}
       THEN LET j == Min(long)
                d == newDate(snippet[longYear(snippet, j)].v,
                             monthOfWord(lowerWord(snippet[j].s)),
                             snippet[longDay(snippet, j)].v)
            IN [start |-> Some(d), next |-> Some(addDays(d, 30))]
     ELSE [start |-> None, next |-> None]

----------------------------------------------------------------------------
(* The product pattern *)

productKeywords ==
  {"plan", "subscription", "membership", "premium", "pro", "plus",
   "monthly", "annual"}

\* a character of [\s:]
isSepChar(a) == isSpace(a) \/ a = P(":")

\* a character of [A-Za-z0-9 -]
isProductChar(a) == a.k \in {"w", "d"} \/ a \in {P(" "), P("-")}

RECURSIVE skipSep(_, _)
skipSep(t, j) ==
  IF j <= Len(t) /\ isSepChar(t[j]) THEN skipSep(t, j + 1) ELSE j

RECURSIVE skipProduct(_, _)
skipProduct(t, j) ==
  IF j <= Len(t) /\ isProductChar(t[j]) THEN skipProduct(t, j + 1) ELSE j

\* group 2 of the pattern tried after a keyword that ends before position j:
\* [\s:]* is greedy, and gives one blank back to the group when nothing of
\* the group's class follows the separators
productTail(t, j) ==
  LET k == skipSep(t, j)
      e == skipProduct(t, k)
  IN IF e > k THEN Some(SubSeq(t, k, e - 1))
     ELSE IF k > j /\ t[k - 1] = P(" ") THEN Some(<<P(" ")>>)
     ELSE None

\* prodMatch[2] of the leftmost match, None when the pattern does not match
prodMatch(snippet) ==
  LET at == {j \in 1..Len(snippet) :
               /\ snippet[j].k = "w"
               /\ lowerWord(snippet[j].s) \in productKeywords
               /\ productTail(snippet, j + 1) # None}
  IN IF at = {} THEN None ELSE productTail(snippet, Min(at) + 1)

extractProduct(snippet) ==
  IF snippet = None \/ prodMatch(snippet[1]) = None THEN None
  ELSE Some(firstLine(trim(prodMatch(snippet[1])[1])))

----------------------------------------------------------------------------
(* The input texts *)

RECURSIVE join(_)
join(ps) ==
  IF ps = <<>> THEN <<>>
  ELSE IF Len(ps) = 1 THEN ps[1]
  ELSE ps[1] \o <<sp>> \o join(Tail(ps))

usd1599 == <<P("$"), D(15, 2), P("."), D(99, 2)>>

usd5 == <<P("$"), D(5, 1)>>

eur999 == <<P("€"), D(9, 1), P(","), D(99, 2)>>

ngn500 == <<P("₦"), D(500, 3)>>

gbp5 == <<P("£"), D(5, 1)>>

isoValid == <<D(2024, 4), P("-"), D(3, 2), P("-"), D(5, 2)>>

isoMalformed == <<D(2024, 4), P("-"), D(13, 2), P("-"), D(45, 2)>>

isoRollover == <<D(2024, 4), P("/"), D(2, 1), P("/"), D(30, 2)>>

longValid == <<W("Jan"), sp, D(5, 1), P(","), sp, D(2024, 4)>>

longMalformed == <<W("Jan"), sp, D(45, 2), P(","), sp, D(2024, 4)>>

\* texts that pass the Candidate Filter
AcceptedTexts ==
  { \* "Netflix subscription $15.99 renewed 2024-03-05"
    join(<< <<W("Netflix")>>, <<W("subscription")>>, usd1599,
            <<W("renewed")>>, isoValid >>),
    \* "spotify Premium payment €9,99 Jan 5, 2024"
    join(<< <<W("spotify")>>, <<W("Premium")>>, <<W("payment")>>, eur999,
            longValid >>),
    \* "Netflix payment $"
    join(<< <<W("Netflix")>>, <<W("payment")>>, <<P("$")>> >>),
    \* "Netflix plan unknown $5"
    join(<< <<W("Netflix")>>, <<W("plan")>>, <<W("unknown")>>, usd5 >>),
    \* "Netflix payment 15 EUR"
    join(<< <<W("Netflix")>>, <<W("payment")>>, <<D(15, 2)>>, <<W("EUR")>> >>),
    \* "Hulu payment ₦500 2024-13-45"
    join(<< <<W("Hulu")>>, <<W("payment")>>, ngn500, isoMalformed >>),
    \* "Netflix spotify payment £5 Jan 45, 2024"
    join(<< <<W("Netflix")>>, <<W("spotify")>>, <<W("payment")>>, gbp5,
            longMalformed >>),
    \* "Hulu payment €3 $5"
    join(<< <<W("Hulu")>>, <<W("payment")>>, <<P("€"), D(3, 1)>>, usd5 >>),
    \* "spotify plan: Premium $9.99"
    <<W("spotify"), sp, W("plan"), P(":"), sp, W("Premium"), sp,
      P("$"), D(9, 1), P("."), D(99, 2)>>,
    \* "spotify plan Premium €12 2024/2/30"
    join(<< <<W("spotify")>>, <<W("plan")>>, <<W("Premium")>>,
            <<P("€"), D(12, 2)>>, isoRollover >>),
    \* "Netflix payment 2024-13-45 Jan 5, 2024 $5"
    join(<< <<W("Netflix")>>, <<W("payment")>>, isoMalformed, longValid,
            usd5 >>) }

\* texts the Candidate Filter rejects
RejectedTexts ==
  { \* "Hulu subscription 15": no currency-like token
    join(<< <<W("Hulu")>>, <<W("subscription")>>, <<D(15, 2)>> >>),
    \* "payment $5": no brand
    join(<< <<W("payment")>>, usd5 >>),
    \* "Netflix Premium $5": no subscription-intent keyword
    join(<< <<W("Netflix")>>, <<W("Premium")>>, usd5 >>) }

\* the From values of the messages that carry a payload
fromSpotify == <<W("billing"), P("@"), W("spotify"), P("."), W("com")>>

fromStripeNetflix == <<W("Stripe"), sp, W("Netflix")>>

fromOther == <<W("hello"), P("@"), W("example"), P("."), W("com")>>

\* the messages that carry a payload
netflixText ==
  join(<< <<W("Netflix")>>, <<W("subscription")>>, usd1599,
          <<W("renewed")>>, isoValid >>)

huluText == join(<< <<W("Hulu")>>, <<W("payment")>>, ngn500, isoMalformed >>)

fromHeader(name, value) == [name |-> name, value |-> value]

HeaderMessages ==
  { [snippet |-> Some(netflixText), payload |-> Some([headers |-> None])],
    [snippet |-> Some(netflixText),
     payload |-> Some([headers |-> Some(<<
       fromHeader("From", Some(fromSpotify)) >>)])],
    [snippet |-> Some(netflixText),
     payload |-> Some([headers |-> Some(<<
       fromHeader("from", Some(fromOther)),
       fromHeader("From", Some(fromSpotify)) >>)])],
    [snippet |-> Some(netflixText),
     payload |-> Some([headers |-> Some(<<
       fromHeader("From", None) >>)])],
    [snippet |-> Some(huluText),
     payload |-> Some([headers |-> Some(<<
       fromHeader("To", Some(fromSpotify)),
       fromHeader("FROM", Some(fromStripeNetflix)) >>)])] }

\* a message without its id: [snippet, payload], both optional
Messages ==
  {[snippet |-> Some(t), payload |-> None] : t \in AcceptedTexts \cup RejectedTexts}
  \cup {[snippet |-> None, payload |-> None]}
  \cup HeaderMessages

\* the batches: the message at position j has id j
Batches ==
  UNION {{[j \in 1..n |-> [id |-> j, snippet |-> b[j].snippet,
                           payload |-> b[j].payload]] :
            b \in [1..n -> Messages]} : n \in 0..MaxMsgs}

----------------------------------------------------------------------------
(* parseSubscriptionsFromEmails *)

currencyCodes == {"usd", "ngn", "eur", "gbp"}

hasBrand(snippet) ==
  \E j \in 1..Len(brandKeywords) : includes(snippet, <<W(brandKeywords[j])>>)

hasPayment(snippet) ==
  \E j \in 1..Len(subscriptionKeywords) : includes(snippet, subscriptionKeywords[j])

\* snippet.match(/\$|₦|€|£|\d{1,5}\s?(usd|ngn|eur|gbp)/i)
hasCurrencyToken(snippet) ==
  \/ \E j \in 1..Len(snippet) : snippet[j] \in {P("$"), P("₦"), P("€"), P("£")}
  \/ \E j \in 1..Len(snippet) :
       /\ snippet[j].k = "d"
       /\ LET k == IF j + 1 <= Len(snippet) /\ isSpace(snippet[j + 1])
                     THEN j + 2 ELSE j + 1
          IN /\ k <= Len(snippet)
             /\ snippet[k].k = "w"
             /\ lowerWord(snippet[k].s) \in currencyCodes

\* m.snippet || ""
snippetOrEmpty(m) == IF m.snippet = None THEN <<>> ELSE m.snippet[1]

\* a filter without the currency test of the second `continue`
passesFilterNoCurrency(m) ==
  LET snippet == toLowerCase(snippetOrEmpty(m))
  IN hasBrand(snippet) /\ hasPayment(snippet)

\* the two `continue` tests of the loop, negated
passesFilter(m) ==
  LET snippet == toLowerCase(snippetOrEmpty(m))
  IN /\ hasBrand(snippet) /\ hasPayment(snippet)
     /\ hasCurrencyToken(snippet)

\* a resolution that looks at the text before the From header
resolveProviderBodyFirst(m) ==
  LET snippet == toLowerCase(snippetOrEmpty(m))
      providerFromHeader == guessProviderFromHeaders(m.payload)
      found == {j \in 1..Len(knownProviders) :
                  includes(snippet, <<W(knownProviders[j])>>)}
  IN IF found # {} THEN knownProviders[Min(found)]
     ELSE IF providerFromHeader # None THEN providerFromHeader[1]
     ELSE "unknown"

resolveProvider(m) ==
  LET snippet == toLowerCase(snippetOrEmpty(m))
      providerFromHeader == guessProviderFromHeaders(m.payload)
      found == {j \in 1..Len(knownProviders) :
                  includes(snippet, <<W(knownProviders[j])>>)}
  IN IF providerFromHeader # None THEN providerFromHeader[1]
     ELSE IF found # {} THEN knownProviders[Min(found)]
     ELSE "unknown"

\* the object pushed to results
candidate(m) ==
  LET money == extractAmount(snippetOrEmpty(m))
      dates == extractDates(snippetOrEmpty(m))
  IN [provider |-> resolveProvider(m),
      product |-> extractProduct(m.snippet),
      amount |-> money.amount,
      currency |-> money.currency,
      startDate |-> dates.start,
      nextBilling |-> IF dates.next # None THEN dates.next
                      ELSE IF dates.start # None
                        THEN Some(addDays(dates.start[1], 30))
                        ELSE None,
      rawData |-> [messageId |-> m.id, snippet |-> m.snippet]]

\* a key that also carries the amount
dedupKeyWithAmount(r) ==
  <<W(r.provider), P(":"), P(":")>>
    \o (IF r.product = None THEN <<W("unknown")>> ELSE r.product[1])
    \o <<P(":"), P(":")>>
    \o (IF r.amount = None THEN <<>> ELSE <<D(r.amount[1], 0)>>)

\* `${r.provider}::${r.product ?? "unknown"}`
dedupKey(r) ==
  <<W(r.provider), P(":"), P(":")>>
    \o (IF r.product = None THEN <<W("unknown")>> ELSE r.product[1])

\* grouped.has(key), grouped being the list of [key, value] in insertion order
groupedHas(g, key) == \E j \in 1..Len(g) : g[j].key = key

\* Map.prototype.set: a key already in the map keeps its place and takes the
\* new value
groupedSet(g, key, r) ==
  IF groupedHas(g, key)
    THEN [j \in 1..Len(g) |-> IF g[j].key = key THEN [key |-> key, value |-> r]
                              ELSE g[j]]
    ELSE Append(g, [key |-> key, value |-> r])

\* a deduplication that forgets the has-test: the last duplicate wins
groupedOverwrite(g, r) == groupedSet(g, dedupKey(r), r)

\* if (!grouped.has(key)) grouped.set(key, r)
groupedInsert(g, r) ==
  IF groupedHas(g, dedupKey(r)) THEN g ELSE groupedSet(g, dedupKey(r), r)

\* Array.from(grouped.values())
groupedValues(g) == [j \in 1..Len(g) |-> g[j].value]

Init ==
  /\ msgs \in Batches
  /\ i = 1
  /\ results = <<>>
  /\ grouped = <<>>
  /\ out = None
  /\ pc = "loop"
  /\ store = {}
  /\ nextId = 1
  /\ scan = <<>>

\* one iteration of `for (const m of msgs)` that ends in `continue`
Skip ==
  /\ pc = "loop" /\ i <= Len(msgs)
  /\ ~passesFilter(msgs[i])
  /\ i' = i + 1
  /\ UNCHANGED <<msgs, results, grouped, out, pc, store, nextId, scan>>

\* one iteration that pushes a candidate
Push ==
  /\ pc = "loop" /\ i <= Len(msgs)
  /\ passesFilter(msgs[i])
  /\ results' = Append(results, candidate(msgs[i]))
  /\ i' = i + 1
  /\ UNCHANGED <<msgs, grouped, out, pc, store, nextId, scan>>

\* the first loop is over
StartDedup ==
  /\ pc = "loop" /\ i > Len(msgs)
  /\ pc' = "dedup"
  /\ i' = 1
  /\ UNCHANGED <<msgs, results, grouped, out, store, nextId, scan>>

\* one iteration of `for (const r of results)`
Dedup ==
  /\ pc = "dedup" /\ i <= Len(results)
  /\ grouped' = groupedInsert(grouped, results[i])
  /\ i' = i + 1
  /\ UNCHANGED <<msgs, results, out, pc, store, nextId, scan>>

Return ==
  /\ pc = "dedup" /\ i > Len(results)
  /\ out' = Some(groupedValues(grouped))
  /\ pc' = "done"
  /\ UNCHANGED <<msgs, i, results, grouped, store, nextId, scan>>

Next == Skip \/ Push \/ StartDedup \/ Dedup \/ Return

Spec == Init /\ [][Next]_vars

----------------------------------------------------------------------------
(* parseSubscriptionsFromEmails as one function, for its caller *)

RECURSIVE resultsOf(_)
resultsOf(ms) ==
  IF ms = <<>> THEN <<>>
  ELSE (IF passesFilter(Head(ms)) THEN <<candidate(Head(ms))>> ELSE <<>>)
         \o resultsOf(Tail(ms))

RECURSIVE dedupOf(_, _)
dedupOf(g, rs) ==
  IF rs = <<>> THEN g ELSE dedupOf(groupedInsert(g, Head(rs)), Tail(rs))

parseSubscriptionsFromEmails(ms) == groupedValues(dedupOf(<<>>, resultsOf(ms)))

\* the loop of Spec computes the same sequence
ParserAgrees == pc = "done" => out = Some(parseSubscriptionsFromEmails(msgs))

----------------------------------------------------------------------------
(* scanUserGmailForSubscriptions: the calls, the store and the awaits *)

Users == {"u1", "u2", "u3"}

\* prisma.googleToken: the users that have a token row
googleToken == {"u1", "u2"}

batchOf(ts) ==
  [j \in 1..Len(ts) |-> [id |-> j, snippet |-> Some(ts[j]), payload |-> None]]

\* what the Gmail list and get calls of one scan may hand to the parser
Detailed ==
  { batchOf(<< join(<< <<W("Netflix")>>, <<W("payment")>>, <<P("$")>> >>) >>),
    batchOf(<< join(<< <<W("Netflix")>>, <<W("plan")>>, <<W("unknown")>>,
                       usd5 >>) >>),
    batchOf(<< <<W("spotify"), sp, W("plan"), P(":"), sp, W("Premium"), sp,
                 P("$"), D(9, 1), P("."), D(99, 2)>>,
               join(<< <<W("Netflix")>>, <<W("payment")>>, <<D(15, 2)>>,
                       <<W("EUR")>> >>) >>),
    batchOf(<< join(<< <<W("payment")>>, usd5 >>) >>) }

\* the rows prisma.subscription.findFirst may return for
\* where: { userId, provider: p.provider, product: p.product }; a condition
\* whose value is undefined is left out of the query
findFirst(rows, userId, p) ==
  {r \in rows : /\ r.userId = userId
                /\ r.provider = p.provider
                /\ (p.product = None \/ r.product = p.product)}

\* x ?? y
orElse(x, y) == IF x # None THEN x ELSE y

\* p.nextBilling ?? (p.startDate ? addDays(p.startDate, 30) : null)
nextBillingOf(p) ==
  IF p.nextBilling # None THEN p.nextBilling
  ELSE IF p.startDate # None THEN Some(addDays(p.startDate[1], 30))
  ELSE None

updatedRow(row, existing, p) ==
  [row EXCEPT !.amount = orElse(p.amount, existing.amount),
              !.currency = orElse(p.currency, existing.currency),
              !.startDate = orElse(p.startDate, existing.startDate),
              !.nextBilling = nextBillingOf(p),
              !.rawData = p.rawData]

createdRow(id, userId, p) ==
  [id |-> id, userId |-> userId, provider |-> p.provider,
   product |-> p.product, amount |-> p.amount, currency |-> p.currency,
   startDate |-> p.startDate, nextBilling |-> nextBillingOf(p),
   rawData |-> p.rawData]

ScanInit ==
  /\ msgs = <<>>
  /\ i = 1
  /\ results = <<>>
  /\ grouped = <<>>
  /\ out = None
  /\ pc = "idle"
  /\ store = {}
  /\ nextId = 1
  /\ scan = <<>>

\* a caller starts scanUserGmailForSubscriptions(userId)
Call(userId) ==
  /\ Len(scan) < MaxScans
  /\ scan' = Append(scan, [userId |-> userId, pc |-> "token", parsed |-> <<>>,
                           k |-> 1, existing |-> None, saved |-> <<>>])
  /\ UNCHANGED <<parserVars, store, nextId>>

\* if (!token) throw new Error("No google token for user")
NoToken(c) ==
  /\ scan[c].pc = "token"
  /\ scan[c].userId \notin googleToken
  /\ scan' = [scan EXCEPT ![c].pc = "failed"]
  /\ UNCHANGED <<parserVars, store, nextId>>

\* the token is found, the messages are listed and fetched, the parser runs
Fetch(c, detailed) ==
  /\ scan[c].pc = "token"
  /\ scan[c].userId \in googleToken
  /\ scan' = [scan EXCEPT ![c].parsed = parseSubscriptionsFromEmails(detailed),
                          ![c].k = 1,
                          ![c].pc = "find"]
  /\ UNCHANGED <<parserVars, store, nextId>>

\* await prisma.subscription.findFirst for the candidate parsed[k]
FindFirst(c) ==
  /\ scan[c].pc = "find" /\ scan[c].k <= Len(scan[c].parsed)
  /\ LET found == findFirst(store, scan[c].userId, scan[c].parsed[scan[c].k])
     IN \E e \in (IF found = {} THEN {None} ELSE {Some(r) : r \in found}) :
          scan' = [scan EXCEPT ![c].existing = e, ![c].pc = "write"]
  /\ UNCHANGED <<parserVars, store, nextId>>

\* await prisma.subscription.update({ where: { id: existing.id }, ... })
Update(c) ==
  /\ scan[c].pc = "write" /\ scan[c].existing # None
  /\ LET existing == scan[c].existing[1]
         p == scan[c].parsed[scan[c].k]
     IN /\ store' = {IF r.id = existing.id THEN updatedRow(r, existing, p)
                     ELSE r : r \in store}
        /\ scan' = [scan EXCEPT ![c].saved = Append(@, existing.id),
                                ![c].existing = None,
                                ![c].k = @ + 1,
                                ![c].pc = "find"]
  /\ UNCHANGED <<parserVars, nextId>>

\* await prisma.subscription.create({ data: { userId, ... } })
Create(c) ==
  /\ scan[c].pc = "write" /\ scan[c].existing = None
  /\ LET p == scan[c].parsed[scan[c].k]
     IN store' = store \cup {createdRow(nextId, scan[c].userId, p)}
  /\ nextId' = nextId + 1
  /\ scan' = [scan EXCEPT ![c].saved = Append(@, nextId),
                          ![c].k = @ + 1,
                          ![c].pc = "find"]
  /\ UNCHANGED parserVars

\* return saved
Finish(c) ==
  /\ scan[c].pc = "find" /\ scan[c].k > Len(scan[c].parsed)
  /\ scan' = [scan EXCEPT ![c].pc = "returned"]
  /\ UNCHANGED <<parserVars, store, nextId>>

ScanNext ==
  \/ \E u \in Users : Call(u)
  \/ \E c \in 1..Len(scan) : NoToken(c)
  \/ \E c \in 1..Len(scan), d \in Detailed : Fetch(c, d)
  \/ \E c \in 1..Len(scan) : FindFirst(c)
  \/ \E c \in 1..Len(scan) : Update(c)
  \/ \E c \in 1..Len(scan) : Create(c)
  \/ \E c \in 1..Len(scan) : Finish(c)

ScanSpec == ScanInit /\ [][ScanNext]_vars

----------------------------------------------------------------------------
(* Properties of parseSubscriptionsFromEmails, checked under Spec *)

\* the returned sequence, empty before the return
returned == IF out = None THEN <<>> ELSE out[1]

\* the text of the input message at position j
textOf(j) == snippetOrEmpty(msgs[j])

\* the three conditions of the Candidate Filter on the message at position j
meetsAllThree(j) ==
  /\ hasBrand(toLowerCase(textOf(j)))
  /\ hasPayment(toLowerCase(textOf(j)))
  /\ hasCurrencyToken(toLowerCase(textOf(j)))

\* the (provider, product) pair of a candidate and its deduplication key as
\* the pair <<provider, product or "unknown">>
pairOf(c) == <<c.provider, c.product>>

keyOf(c) ==
  <<c.provider, IF c.product = None THEN <<W("unknown")>> ELSE c.product[1]>>

\* C1: no two candidates of the returned sequence have the same
\* (provider, product) pair.
C1_UniquePairs ==
  pc = "done" =>
    \A a, b \in 1..Len(returned) :
      a # b => pairOf(returned[a]) # pairOf(returned[b])

\* two accepted messages with the same pair went in and one candidate came out
C1_Witness ==
  /\ pc = "done"
  /\ Len(results) = 2
  /\ pairOf(results[1]) = pairOf(results[2])
  /\ Len(returned) = 1

\* C2: every returned candidate carries the id of an input message whose text
\* has a brand, a subscription-intent keyword and a currency-like token, and a
\* message that fails one of the three conditions produces no candidate.
C2_FilterIsGate ==
  pc = "done" =>
    /\ \A a \in 1..Len(returned) :
         \E j \in 1..Len(msgs) :
           msgs[j].id = returned[a].rawData.messageId /\ meetsAllThree(j)
    /\ \A j \in 1..Len(msgs) :
         ~meetsAllThree(j) =>
           /\ \A a \in 1..Len(returned) :
                returned[a].rawData.messageId # msgs[j].id
           /\ \A a \in 1..Len(results) :
                results[a].rawData.messageId # msgs[j].id

\* a batch with a message that has a brand and a keyword but no currency-like
\* token, and a message that passes; one candidate is returned
C2_Witness ==
  /\ pc = "done"
  /\ Len(returned) = 1
  /\ \E j \in 1..Len(msgs) :
       /\ hasBrand(toLowerCase(textOf(j)))
       /\ hasPayment(toLowerCase(textOf(j)))
       /\ ~hasCurrencyToken(toLowerCase(textOf(j)))

\* the positions of the accepted messages that are the first with their key
firstSeen ==
  {j \in 1..Len(msgs) :
     /\ meetsAllThree(j)
     /\ \A l \in 1..(j - 1) :
          meetsAllThree(l) => keyOf(candidate(msgs[l])) # keyOf(candidate(msgs[j]))}

\* C3: deduplication is first-seen-wins and order-preserving: the returned
\* candidates are, in input order, the candidates built from the earliest
\* accepted message of each key, with every field as that message gave it.
C3_FirstSeenWins ==
  pc = "done" =>
    /\ Len(returned) = Cardinality(firstSeen)
    /\ \A a \in 1..Len(returned) :
         /\ returned[a].rawData.messageId \in firstSeen
         /\ returned[a] = candidate(msgs[returned[a].rawData.messageId])
    /\ \A a, b \in 1..Len(returned) :
         a < b => returned[a].rawData.messageId < returned[b].rawData.messageId

\* two accepted messages with one key and different amounts: the first is kept
C3_Witness ==
  /\ pc = "done"
  /\ Len(results) = 2
  /\ keyOf(results[1]) = keyOf(results[2])
  /\ results[1].amount # results[2].amount
  /\ returned = <<results[1]>>

\* C4: on every returned candidate amount and currency are both present or
\* both absent, and both are absent when the text has no number.
C4_AmountCurrencyTogether ==
  pc = "done" =>
    \A a \in 1..Len(returned) :
      /\ (returned[a].amount = None) <=> (returned[a].currency = None)
      /\ (\A j \in 1..Len(textOf(returned[a].rawData.messageId)) :
            textOf(returned[a].rawData.messageId)[j].k # "d")
           => returned[a].amount = None /\ returned[a].currency = None

\* a returned candidate whose text has a currency symbol and no number, next
\* to one with an amount
C4_Witness ==
  /\ pc = "done"
  /\ \E a, b \in 1..Len(returned) :
       /\ returned[a].amount = None /\ returned[a].currency = None
       /\ includes(textOf(returned[a].rawData.messageId), <<P("$")>>)
       /\ returned[b].amount # None /\ returned[b].currency # None

\* C5: on every returned candidate startDate and nextBilling are both null or
\* both non-null, and nextBilling is startDate plus 30 days (the Invalid Date
\* plus 30 days being the Invalid Date).
C5_NextBillingIsStartPlus30 ==
  pc = "done" =>
    \A a \in 1..Len(returned) :
      /\ (returned[a].startDate = None) <=> (returned[a].nextBilling = None)
      /\ returned[a].startDate # None =>
           IF returned[a].startDate[1].valid
             THEN /\ returned[a].nextBilling[1].valid
                  /\ returned[a].nextBilling[1].t = returned[a].startDate[1].t + 30
             ELSE ~returned[a].nextBilling[1].valid

\* a returned candidate with a valid start date and one without any date
C5_Witness ==
  /\ pc = "done"
  /\ \E a, b \in 1..Len(returned) :
       /\ returned[a].startDate # None /\ returned[a].startDate[1].valid
       /\ returned[b].startDate = None /\ returned[b].nextBilling = None

\* the date the text offers the extractor does not parse: its first ISO-like
\* date has a month outside 1..12 or a day outside 1..31 or, without any
\* ISO-like date, its first long-form date has such a day
hasMalformedDate(t) ==
  IF isoMatches(t) # {}
    THEN LET j == Min(isoMatches(t))
         IN t[j + 2].v \notin 1..12 \/ t[j + 4].v \notin 1..31
    ELSE /\ longDateMatches(t) # {}
         /\ t[longDay(t, Min(longDateMatches(t)))].v \notin 1..31

\* C6: a date substring that matches a date pattern and does not parse never
\* aborts extraction: the accepted message yields a candidate whose startDate
\* and nextBilling are both null.
C6_MalformedDateGivesNull ==
  pc = "done" =>
    \A j \in 1..Len(msgs) :
      (meetsAllThree(j) /\ hasMalformedDate(textOf(j))) =>
        \E a \in 1..Len(results) :
          /\ results[a].rawData.messageId = msgs[j].id
          /\ results[a].startDate = None
          /\ results[a].nextBilling = None

\* the part of C6 the code keeps: such a message still yields a candidate
C6_CandidateStillBuilt ==
  pc = "done" =>
    \A j \in 1..Len(msgs) :
      (meetsAllThree(j) /\ hasMalformedDate(textOf(j))) =>
        \E a \in 1..Len(results) : results[a].rawData.messageId = msgs[j].id

\* the provider the two-tier rule names for the message at position j
fromValue(j) ==
  LET headers == IF msgs[j].payload = None \/ msgs[j].payload[1].headers = None
                   THEN <<>>
                   ELSE msgs[j].payload[1].headers[1]
      named == {l \in 1..Len(headers) : lowerWord(headers[l].name) = "from"}
  IN IF named = {} \/ headers[Min(named)].value = None THEN <<>>
     ELSE toLowerCase(headers[Min(named)].value[1])

providersIn(t) ==
  {l \in 1..Len(knownProviders) : includes(t, <<W(knownProviders[l])>>)}

twoTierProvider(j) ==
  IF providersIn(fromValue(j)) # {}
    THEN knownProviders[Min(providersIn(fromValue(j)))]
  ELSE IF providersIn(toLowerCase(textOf(j))) # {}
    THEN knownProviders[Min(providersIn(toLowerCase(textOf(j))))]
  ELSE "unknown"

\* C7: the provider of a candidate is the first provider, in enumeration
\* order, that the value of the first From header contains, whatever the text
\* says; else the first provider in enumeration order that the lower-cased
\* text contains; else "unknown".
C7_TwoTierProvider ==
  pc = "done" =>
    \A a \in 1..Len(returned) :
      /\ returned[a].provider = twoTierProvider(returned[a].rawData.messageId)
      /\ returned[a].provider \in
           {knownProviders[l] : l \in 1..Len(knownProviders)} \cup {"unknown"}

\* a returned candidate whose From header names one provider and whose text
\* names another, and one whose From header names two providers of which the
\* later in the text comes first in the enumeration
C7_Witness ==
  /\ pc = "done"
  /\ \E a \in 1..Len(returned) :
       LET j == returned[a].rawData.messageId
       IN /\ providersIn(fromValue(j)) # {}
          /\ providersIn(toLowerCase(textOf(j))) # {}
          /\ Min(providersIn(fromValue(j))) # Min(providersIn(toLowerCase(textOf(j))))
  /\ \E a \in 1..Len(returned) :
       Cardinality(providersIn(fromValue(returned[a].rawData.messageId))) = 2

\* the 3-letter currency codes of moneyRegex that stand in a text, upper case
explicitCodes(t) ==
  {c \in {"USD", "EUR", "NGN"} :
     \E j \in 1..Len(t) : t[j].k = "w" /\ lowerWord(t[j].s) = lowerWord(c)}

\* the symbol precedence: $ then € then ₦, else the default
symbolCurrency(t) ==
  IF \E j \in 1..Len(t) : t[j] = P("$") THEN "USD"
  ELSE IF \E j \in 1..Len(t) : t[j] = P("€") THEN "EUR"
  ELSE IF \E j \in 1..Len(t) : t[j] = P("₦") THEN "NGN"
  ELSE "USD"

\* C8: for every candidate with an amount, an explicit 3-letter code in the
\* text gives the currency; without one the currency is USD if the text has $,
\* else EUR if it has €, else NGN if it has ₦, else USD.
C8_ExplicitCodeThenSymbols ==
  pc = "done" =>
    \A a \in 1..Len(results) :
      results[a].amount # None =>
        LET t == textOf(results[a].rawData.messageId)
        IN IF explicitCodes(t) # {}
             THEN results[a].currency # None /\ results[a].currency[1] \in explicitCodes(t)
             ELSE results[a].currency = Some(symbolCurrency(t))

\* the part of C8 the code keeps: the symbol precedence, whatever codes the
\* text holds
C8_SymbolPrecedence ==
  pc = "done" =>
    \A a \in 1..Len(results) :
      results[a].amount # None =>
        results[a].currency = Some(symbolCurrency(textOf(results[a].rawData.messageId)))

\* C9: for every message that passes the Candidate Filter the returned
\* sequence holds a candidate with that message's provider and product, an
\* absent product and the product "unknown" being different products.
C9_NoPairLost ==
  pc = "done" =>
    \A j \in 1..Len(msgs) :
      meetsAllThree(j) =>
        \E a \in 1..Len(returned) :
          pairOf(returned[a]) = pairOf(candidate(msgs[j]))

----------------------------------------------------------------------------
(* Properties of the persistence step, checked under ScanSpec *)

\* C10: the subscription store never holds two rows with the same
\* (userId, provider, product), however the scans of a user overlap.
C10_NoDuplicateRows ==
  \A r1, r2 \in store :
    (r1.userId = r2.userId /\ r1.provider = r2.provider
       /\ r1.product = r2.product) => r1.id = r2.id

\* scans run one after another: a call starts when every earlier one is over
SerialNext ==
  \/ \E u \in Users :
       /\ \A c \in 1..Len(scan) : scan[c].pc \in {"failed", "returned"}
       /\ Call(u)
  \/ \E c \in 1..Len(scan) : NoToken(c)
  \/ \E c \in 1..Len(scan), d \in Detailed : Fetch(c, d)
  \/ \E c \in 1..Len(scan) : FindFirst(c)
  \/ \E c \in 1..Len(scan) : Update(c)
  \/ \E c \in 1..Len(scan) : Create(c)
  \/ \E c \in 1..Len(scan) : Finish(c)

SerialSpec == ScanInit /\ [][SerialNext]_vars

====
